---------------------------- MODULE Spec2Model ----------------------------
(***************************************************************************)
(* A model of the CSV reader of src/src/csv.c: csv_read (dimension scan,   *)
(* header loader, data loader), csv_free and the typed accessors.          *)
(*                                                                         *)
(* The file is a finite sequence of bytes as the C stream delivers them in *)
(* text mode; the line terminator is the single byte LF.  The bytes are    *)
(* drawn from Alphabet (one ordinary byte, the digit 1, and the three      *)
(* bytes the grammar names); no NUL byte occurs in a file, so a C string   *)
(* and the sequence of bytes stored before its terminating NUL coincide.   *)
(* The stream position pos is the 1-based index of the next byte getc      *)
(* returns; pos = Len(file) + 1 is end-of-stream.                          *)
(***************************************************************************)
EXTENDS Naturals, Sequences, FiniteSets

(***************************************************************************)
(* Bounds of the model.                                                    *)
(***************************************************************************)
\* longest file enumerated, in bytes
MaxLen == 5
\* size of the temporary field buffer; csv.h sets 1024, the model scales it
\* below MaxLen so that fields shorter than, equal to and longer than the
\* buffer all occur
CSV_TEMPORARY_BUFFER_LENGTH == 3
\* largest row or column index an accessor is called with
MaxIndex == 3

(***************************************************************************)
(* csv_errno (csv.h)                                                       *)
(***************************************************************************)
CSV_SUCCESS == 0
CSV_NULL_FILENAME == 1
CSV_INVALID_FILE == 2
CSV_NUM_COLUMNS_OVERFLOW == 3
CSV_NUM_ROWS_OVERFLOW == 4
CSV_FIELD_LEN_OVERFLOW == 5
CSV_BUFFER_OVERFLOW == 6
CSV_MALLOC_FAILED == 7
CSV_FATAL_UNGETC == 8
CSV_NULL_INPUT_POINTER == 9
CSV_PARAM_OUT_OF_BOUNDS == 10
CSV_UNKNOWN_FATAL_ERROR == 11
CSV_READ_FAIL == 12
CSV_READ_OVERFLOW == 13
CSV_READ_UNDERFLOW == 14
CSV_READ_PARTIAL == 15
CSV_INVALID_BASE == 16
CSV_MISSING_DATA == 17
CSV_UNDEFINED == 999

(***************************************************************************)
(* Bytes                                                                   *)
(***************************************************************************)
COMMA == ","
LF == "\n"
QUOTE == "\""
EOF == "EOF"
DIGIT == "1"
Alphabet == {DIGIT, COMMA, LF, QUOTE}
Files == UNION {[1..n -> Alphabet] : n \in 0..MaxLen}

\* getc: the next byte, or EOF at end-of-stream
getc(f, p) == IF p > Len(f) THEN EOF ELSE f[p]
\* the position after a getc at p: a getc that returned EOF does not move
after(f, p) == IF p > Len(f) THEN p ELSE p + 1

(***************************************************************************)
(* The quote-consuming loop of csv_cols and csv_rows:                      *)
(*     while (1) { c = getc(csvfile); if (c == '"') break; else continue; }*)
(* started at p.  Its result is the position after the next quote.  At     *)
(* end-of-stream getc returns EOF for ever and the loop never leaves: the  *)
(* result is then 0.                                                       *)
(***************************************************************************)
RECURSIVE skip_quoted(_, _)
skip_quoted(f, p) ==
    IF p > Len(f) THEN 0
    ELSE IF f[p] = QUOTE THEN p + 1
    ELSE skip_quoted(f, p + 1)

(***************************************************************************)
(* csv_cols: the number of columns from the first row.  The counter is a   *)
(* uint32_t; it is at most Len(f) + 1, far below 2^32, so the increment is *)
(* exact and the wrap test, cols == 0, is translated as written.           *)
(* hang is TRUE when the quote loop never terminates.                      *)
(***************************************************************************)
RECURSIVE cols_loop(_, _, _)
cols_loop(f, p, cols) ==
    LET c == getc(f, p) IN
    IF c = EOF THEN [status |-> CSV_SUCCESS, cols |-> cols, hang |-> FALSE]
    ELSE IF c = COMMA THEN
        IF cols + 1 = 0
        THEN [status |-> CSV_NUM_COLUMNS_OVERFLOW, cols |-> cols + 1, hang |-> FALSE]
        ELSE cols_loop(f, p + 1, cols + 1)
    ELSE IF c = LF THEN [status |-> CSV_SUCCESS, cols |-> cols, hang |-> FALSE]
    ELSE IF c = QUOTE THEN
        LET q == skip_quoted(f, p + 1) IN
        IF q = 0 THEN [status |-> CSV_UNDEFINED, cols |-> cols, hang |-> TRUE]
        ELSE cols_loop(f, q, cols)
    ELSE cols_loop(f, p + 1, cols)

csv_cols(f) == cols_loop(f, 1, 1)

(***************************************************************************)
(* csv_rows: the number of rows of the whole stream, header included.      *)
(* ungetc of the byte just read cannot fail (one byte of pushback is       *)
(* guaranteed), so CSV_FATAL_UNGETC is not produced.                       *)
(***************************************************************************)
\* the label terminate: increment rows; if rows == 0 return overflow
rows_terminate(rows) ==
    IF rows + 1 = 0
    THEN [status |-> CSV_NUM_ROWS_OVERFLOW, rows |-> rows + 1, hang |-> FALSE]
    ELSE [status |-> CSV_SUCCESS, rows |-> rows + 1, hang |-> FALSE]

RECURSIVE rows_loop(_, _, _)
rows_loop(f, p, rows) ==
    LET c == getc(f, p) IN
    IF c = EOF THEN rows_terminate(rows)
    ELSE IF c = LF THEN
        IF getc(f, p + 1) = EOF THEN rows_terminate(rows)
        ELSE IF rows + 1 = 0
             THEN [status |-> CSV_NUM_ROWS_OVERFLOW, rows |-> rows + 1, hang |-> FALSE]
             ELSE rows_loop(f, p + 1, rows + 1)
    ELSE IF c = QUOTE THEN
        LET q == skip_quoted(f, p + 1) IN
        IF q = 0 THEN [status |-> CSV_UNDEFINED, rows |-> rows, hang |-> TRUE]
        ELSE rows_loop(f, q, rows)
    ELSE rows_loop(f, p + 1, rows)

\* csv_rows without the look-ahead after a line terminator: a terminator that
\* ends the file is counted as the start of a further row
RECURSIVE rows_loop_nopeek(_, _, _)
rows_loop_nopeek(f, p, rows) ==
    LET c == getc(f, p) IN
    IF c = EOF THEN rows_terminate(rows)
    ELSE IF c = LF THEN rows_loop_nopeek(f, p + 1, rows + 1)
    ELSE IF c = QUOTE THEN
        LET q == skip_quoted(f, p + 1) IN
        IF q = 0 THEN [status |-> CSV_UNDEFINED, rows |-> rows, hang |-> TRUE]
        ELSE rows_loop_nopeek(f, q, rows)
    ELSE rows_loop_nopeek(f, p + 1, rows)

csv_rows_nopeek(f) == rows_loop_nopeek(f, 1, 0)

csv_rows(f) == rows_loop(f, 1, 0)

(***************************************************************************)
(* csv_dims: columns, then rows; the header row is taken off the row count.*)
(***************************************************************************)
csv_dims(f, hasHeader) ==
    LET c == csv_cols(f) IN
    IF c.hang THEN [status |-> CSV_UNDEFINED, rows |-> 0, cols |-> c.cols, hang |-> TRUE]
    ELSE IF c.status # CSV_SUCCESS
    THEN [status |-> c.status, rows |-> 0, cols |-> c.cols, hang |-> FALSE]
    ELSE LET r == csv_rows(f) IN
         IF r.hang THEN [status |-> CSV_UNDEFINED, rows |-> r.rows, cols |-> c.cols, hang |-> TRUE]
         ELSE IF r.status = CSV_SUCCESS
         THEN [status |-> CSV_SUCCESS,
               rows |-> IF hasHeader THEN r.rows - 1 ELSE r.rows,
               cols |-> c.cols, hang |-> FALSE]
         ELSE [status |-> r.status, rows |-> r.rows, cols |-> c.cols, hang |-> FALSE]

(***************************************************************************)
(* csv_tokenize: read one field at p into a buffer of n bytes.             *)
(*   buf    the bytes stored at buffer[0], buffer[1], ... in order         *)
(*   pos    the stream position when the call returns                      *)
(*   top    the number of buffer indices written (bytes and the NUL)       *)
(* A store at an index >= n is outside the buffer; the loop has no test of *)
(* i against n, so buf may be longer than n.  The counter i is a uint32_t  *)
(* that stays far below 2^32; its wrap test (i == 0) is translated as      *)
(* written.                                                                *)
(***************************************************************************)
IsTerminator(c) == c = COMMA \/ c = LF \/ c = EOF

tokenize_end(buf, p, n) ==
    IF Len(buf) = n
    THEN [status |-> CSV_BUFFER_OVERFLOW, buf |-> buf, pos |-> p, top |-> Len(buf)]
    ELSE [status |-> CSV_SUCCESS, buf |-> buf, pos |-> p, top |-> Len(buf) + 1]

RECURSIVE tokenize_loop(_, _, _, _)
tokenize_loop(f, p, buf, n) ==
    LET lag == getc(f, p)
        p1 == after(f, p)
        lead == getc(f, p1)
        p2 == after(f, p1)
        stored == IF lag = QUOTE THEN Append(buf, lead) ELSE Append(buf, lag)
        next == IF lag = QUOTE THEN p2 ELSE p1
    IN
    IF lag = QUOTE /\ IsTerminator(lead) THEN tokenize_end(buf, p2, n)
    ELSE IF lag # QUOTE /\ IsTerminator(lag) THEN tokenize_end(buf, p1, n)
    ELSE IF Len(stored) = 0
         THEN [status |-> CSV_FIELD_LEN_OVERFLOW, buf |-> stored, pos |-> next,
               top |-> Len(stored)]
         ELSE tokenize_loop(f, next, stored, n)

csv_tokenize(f, p, n) == tokenize_loop(f, p, <<>>, n)

(***************************************************************************)
(* The grammar of RFC 4180, against which the claims about well-formed     *)
(* files are stated.  RefField reads the field that starts at p:           *)
(*   ok      the field is well formed                                      *)
(*   text    its decoded text (enclosing quotes stripped, "" decoded to ") *)
(*   pos     the position after its terminating delimiter                  *)
(*   term    the delimiter: COMMA, LF or EOF                               *)
(*   quoted  it is a quoted field                                          *)
(***************************************************************************)
RefBad == [ok |-> FALSE, text |-> <<>>, pos |-> 0, term |-> EOF, quoted |-> FALSE]

RECURSIVE ref_quoted(_, _, _)
ref_quoted(f, q, text) ==
    IF q > Len(f) THEN RefBad
    ELSE IF f[q] = QUOTE THEN
        IF getc(f, q + 1) = QUOTE THEN ref_quoted(f, q + 2, Append(text, QUOTE))
        ELSE IF IsTerminator(getc(f, q + 1))
        THEN [ok |-> TRUE, text |-> text, pos |-> after(f, q + 1),
              term |-> getc(f, q + 1), quoted |-> TRUE]
        ELSE RefBad
    ELSE ref_quoted(f, q + 1, Append(text, f[q]))

RECURSIVE ref_plain(_, _, _)
ref_plain(f, q, text) ==
    LET c == getc(f, q) IN
    IF IsTerminator(c)
    THEN [ok |-> TRUE, text |-> text, pos |-> after(f, q), term |-> c, quoted |-> FALSE]
    ELSE IF c = QUOTE THEN RefBad
    ELSE ref_plain(f, q + 1, Append(text, c))

RefField(f, p) ==
    IF getc(f, p) = QUOTE THEN ref_quoted(f, p + 1, <<>>) ELSE ref_plain(f, p, <<>>)

(***************************************************************************)
(* RefParse reads the whole file: recs is the sequence of records, each a  *)
(* sequence of decoded fields, and starts the set of positions at which a  *)
(* field starts.  A zero-byte file has no record; a line terminator after  *)
(* the last record is optional and starts no further record.               *)
(***************************************************************************)
RECURSIVE ref_records(_, _, _, _, _)
ref_records(f, p, row, recs, starts) ==
    LET fld == RefField(f, p)
        row1 == Append(row, fld.text)
        starts1 == starts \cup {p}
    IN
    IF ~fld.ok THEN [ok |-> FALSE, recs |-> <<>>, starts |-> {}]
    ELSE IF fld.term = COMMA THEN ref_records(f, fld.pos, row1, recs, starts1)
    ELSE IF fld.term = LF /\ fld.pos <= Len(f)
         THEN ref_records(f, fld.pos, <<>>, Append(recs, row1), starts1)
         ELSE [ok |-> TRUE, recs |-> Append(recs, row1), starts |-> starts1]

RefParse(f) ==
    IF Len(f) = 0 THEN [ok |-> TRUE, recs |-> <<>>, starts |-> {}]
    ELSE ref_records(f, 1, <<>>, <<>>, {})

WellFormed(f) == RefParse(f).ok
\* every record has as many fields as the first
Rectangular(f) ==
    LET r == RefParse(f).recs IN \A k \in 1..Len(r) : Len(r[k]) = Len(r[1])

(***************************************************************************)
(* State.                                                                  *)
(*   fname, file, header   the arguments of csv_read and the file's bytes  *)
(*   buflen                the size of the field buffer the build sets     *)
(*                         (the macro CSV_TEMPORARY_BUFFER_LENGTH)         *)
(*   pc                    the position of the program                     *)
(*   pos                   the stream position of csvfile                  *)
(*   rows, cols, data_pos  locals of csv_read                              *)
(*   status                the local status of the running loader          *)
(*   error, errorWritten   the caller's error variable and whether         *)
(*                         csv_read has stored into it                     *)
(*   ret                   what csv_read returned: "none", "NULL", "doc"   *)
(*   csvRows .. data       the fields of struct csv; hdrp is the header    *)
(*                         pointer ("uninit", "NULL", "alloc"), hdr the    *)
(*                         names stored through it, data the cells stored, *)
(*                         in row-major order                              *)
(*   i, j                  the loop counters of the running loader         *)
(*   tmp, tokStart, tokTop, tokStatus                                      *)
(*                         the field buffer after the last csv_tokenize,   *)
(*                         the position that call started at, the number   *)
(*                         of buffer indices it wrote and what it returned *)
(*   heap                  the blocks malloc returned and free has not     *)
(*                         released                                        *)
(*   ub                    the undefined operations executed so far        *)
(*   acc                   the call of a typed accessor and its outcome    *)
(***************************************************************************)
VARIABLES fname, file, header, buflen, pc, pos, rows, cols, data_pos, status,
          error, errorWritten, ret,
          csvRows, csvCols, total, missing, hdrp, hdr, data,
          i, j, tmp, tokStart, tokTop, tokStatus, heap, ub, acc

args == <<fname, file, header, buflen>>
result == <<error, errorWritten, ret>>
dims == <<rows, cols>>
csvDims == <<csvRows, csvCols, total>>
token == <<tmp, tokStart, tokTop, tokStatus>>
vars == <<fname, file, header, buflen, pc, pos, rows, cols, data_pos, status,
          error, errorWritten, ret,
          csvRows, csvCols, total, missing, hdrp, hdr, data,
          i, j, tmp, tokStart, tokTop, tokStatus, heap, ub, acc>>

\* heap blocks
B_csv == <<"csv", 0, 0>>
B_htmp == <<"htmp", 0, 0>>
B_header == <<"header", 0, 0>>
B_hname(k) == <<"hname", k, 0>>
B_dtmp == <<"dtmp", 0, 0>>
B_data == <<"data", 0, 0>>
B_row(k) == <<"row", k, 0>>
B_cell(r, c) == <<"cell", r, c>>

\* no accessor has been called
NoCall == [fn |-> "none", idx |-> 0, base |-> 0, ret |-> "none", vals |-> <<>>,
           error |-> CSV_UNDEFINED, errno |-> "0", live |-> FALSE]

Init ==
    /\ \/ fname = "ok" /\ file \in Files
       \/ fname \in {"null", "missing"} /\ file = <<>>
    /\ header \in BOOLEAN
    /\ buflen = CSV_TEMPORARY_BUFFER_LENGTH
    /\ pc = "open"
    /\ pos = 1
    /\ rows = 0
    /\ cols = 0
    /\ data_pos = 1
    /\ status = CSV_UNDEFINED
    /\ error = CSV_UNDEFINED
    /\ errorWritten = FALSE
    /\ ret = "none"
    /\ csvRows = 0
    /\ csvCols = 0
    /\ total = 0
    /\ missing = 0
    /\ hdrp = "uninit"
    /\ hdr = <<>>
    /\ data = <<>>
    /\ i = 0
    /\ j = 0
    /\ tmp = <<>>
    /\ tokStart = 0
    /\ tokTop = 0
    /\ tokStatus = CSV_UNDEFINED
    /\ heap = {}
    /\ ub = {}
    /\ acc = NoCall

(***************************************************************************)
(* The exits of csv_read.  STOP stores the code and jumps; the label fail  *)
(* closes the file and returns NULL, the label early_stop returns NULL,    *)
(* the label success closes the file, stores CSV_SUCCESS and returns csv.  *)
(* No exit releases a block.                                               *)
(***************************************************************************)
Stop(code) ==
    /\ error' = code
    /\ errorWritten' = TRUE
    /\ ret' = "NULL"
    /\ pc' = "returned"

Success ==
    /\ error' = CSV_SUCCESS
    /\ errorWritten' = TRUE
    /\ ret' = "doc"
    /\ pc' = "returned"

\* the process is terminated by an undefined operation
Crash ==
    /\ pc' = "crashed"
    /\ UNCHANGED result

\* csv_read: the filename test and fopen
ReadOpen ==
    /\ pc = "open"
    /\ IF fname = "null" THEN Stop(CSV_NULL_FILENAME)
       ELSE IF fname = "missing" THEN Stop(CSV_INVALID_FILE)
       ELSE pc' = "dims" /\ UNCHANGED result
    /\ UNCHANGED <<args, pos, dims, data_pos, status, csvDims, missing, hdrp, hdr,
                   data, i, j, token, heap, ub, acc>>

\* csv_read: the call of csv_dims
ReadDims ==
    /\ pc = "dims"
    /\ LET d == csv_dims(file, header) IN
       IF d.hang THEN pc' = "spin" /\ UNCHANGED <<result, dims, pos>>
       ELSE IF d.status # CSV_SUCCESS
       THEN Stop(d.status) /\ pos' = Len(file) + 1 /\ UNCHANGED dims
       ELSE /\ rows' = d.rows
            /\ cols' = d.cols
            /\ pos' = 1
            /\ pc' = "alloc"
            /\ UNCHANGED result
    /\ UNCHANGED <<args, data_pos, status, csvDims, missing, hdrp, hdr,
                   data, i, j, token, heap, ub, acc>>

\* csv_read: malloc of struct csv, its dimensions, the header branch
ReadAlloc ==
    /\ pc = "alloc"
    /\ \E fail \in BOOLEAN :
        IF fail
        THEN /\ Stop(CSV_MALLOC_FAILED)
             /\ UNCHANGED <<csvDims, hdrp, heap>>
        ELSE /\ heap' = heap \cup {B_csv}
             /\ csvRows' = rows
             /\ csvCols' = cols
             /\ total' = rows * cols
             /\ hdrp' = IF header THEN hdrp ELSE "NULL"
             /\ pc' = IF header THEN "hdr_start" ELSE "data_start"
             /\ UNCHANGED result
    /\ UNCHANGED <<args, pos, dims, data_pos, status, missing, hdr,
                   data, i, j, token, ub, acc>>

(***************************************************************************)
(* csv_get_header, one action per step of the function.                    *)
(* The header array is allocated with room for csv->rows pointers          *)
(* (its malloc is sized by csv->rows, not csv->cols) and filled with       *)
(* csv->cols names; a store header[i] with i >= csv->rows is outside the   *)
(* block.  A store outside a block is undefined: the process either goes   *)
(* on, the byte or pointer landing in the memory that follows the block,   *)
(* or is terminated.  malloc may fail at every call (a request of zero     *)
(* bytes may return NULL as well).                                         *)
(***************************************************************************)
\* rewind, malloc of tmp and of the header array
HeaderStart ==
    /\ pc = "hdr_start"
    /\ pos' = 1
    /\ status' = CSV_UNDEFINED
    /\ \E failAt \in 0..2 :
        IF failAt = 1
        THEN Stop(CSV_MALLOC_FAILED) /\ UNCHANGED <<heap, hdrp, hdr, i>>
        ELSE IF failAt = 2
        THEN /\ Stop(CSV_MALLOC_FAILED)
             /\ heap' = heap \cup {B_htmp}
             /\ hdrp' = "NULL"
             /\ UNCHANGED <<hdr, i>>
        ELSE /\ heap' = heap \cup {B_htmp, B_header}
             /\ hdrp' = "alloc"
             /\ hdr' = <<>>
             /\ i' = 0
             /\ pc' = "hdr_loop"
             /\ UNCHANGED result
    /\ UNCHANGED <<args, dims, data_pos, csvDims, missing, data, j, token, ub, acc>>

\* one turn of the loop: csv_tokenize, malloc of the name, the copy into header[i]
HeaderField ==
    /\ pc = "hdr_loop"
    /\ i < csvCols
    /\ LET t == csv_tokenize(file, pos, buflen)
           oobT == t.top > buflen
           oobH == i >= csvRows
           ubT == IF oobT THEN {"tmp_store_oob"} ELSE {}
           ubH == IF oobH THEN {"header_store_oob"} ELSE {}
       IN
       /\ pos' = t.pos
       /\ tmp' = t.buf
       /\ tokStart' = pos
       /\ tokTop' = t.top
       /\ tokStatus' = t.status
       /\ status' = t.status
       /\ \E crashAt \in 0..2, fail \in BOOLEAN :
           /\ crashAt = 1 => oobT
           /\ crashAt = 2 => t.status = CSV_SUCCESS /\ ~fail /\ oobH
           /\ IF crashAt = 1
              THEN Crash /\ ub' = ub \cup ubT /\ UNCHANGED <<heap, hdr, i>>
              ELSE IF t.status # CSV_SUCCESS
              THEN Stop(t.status) /\ ub' = ub \cup ubT /\ UNCHANGED <<heap, hdr, i>>
              ELSE IF fail
              THEN Stop(CSV_MALLOC_FAILED) /\ ub' = ub \cup ubT /\ UNCHANGED <<heap, hdr, i>>
              ELSE /\ heap' = heap \cup {B_hname(i)}
                   /\ hdr' = Append(hdr, t.buf)
                   /\ ub' = ub \cup ubT \cup ubH
                   /\ IF crashAt = 2
                      THEN Crash /\ UNCHANGED i
                      ELSE i' = i + 1 /\ UNCHANGED <<pc, result>>
    /\ UNCHANGED <<args, dims, data_pos, csvDims, missing, hdrp, data, j, acc>>

\* after the loop: free(tmp), fgetpos; csv_read goes on to csv_get_data
HeaderDone ==
    /\ pc = "hdr_loop"
    /\ i = csvCols
    /\ heap' = heap \ {B_htmp}
    /\ data_pos' = pos
    /\ status' = CSV_SUCCESS
    /\ pc' = "data_start"
    /\ UNCHANGED <<args, pos, dims, result, csvDims, missing, hdrp, hdr, data,
                   i, j, token, ub, acc>>

(***************************************************************************)
(* csv_get_data, one action per step of the function.                      *)
(***************************************************************************)
\* the blocks csv_get_data has obtained when its failAt-th malloc fails
\* (failAt = 0: none fails): tmp, the row table, then one array per row
DataBlocks(failAt, nrows) ==
    IF failAt = 1 THEN {}
    ELSE IF failAt = 2 THEN {B_dtmp}
    ELSE IF failAt = 0 THEN {B_dtmp, B_data} \cup {B_row(r) : r \in 0..(nrows - 1)}
    ELSE {B_dtmp, B_data} \cup {B_row(r) : r \in 0..(failAt - 4)}

\* the test of the second byte instead of the first: a field of one byte
\* counts as missing too
IsMissing_second(buf) == Len(buf) <= 1

\* the test tmp[0] == '\0' that counts a field as missing
IsMissing(buf) == buf = <<>>

\* missing = 0, fsetpos, malloc of tmp, of the row table and of every row array
DataStart ==
    /\ pc = "data_start"
    /\ missing' = 0
    /\ pos' = data_pos
    /\ status' = CSV_UNDEFINED
    /\ \E failAt \in 0..(2 + csvRows) :
        /\ heap' = heap \cup DataBlocks(failAt, csvRows)
        /\ IF failAt # 0
           THEN Stop(CSV_MALLOC_FAILED) /\ UNCHANGED <<data, i, j>>
           ELSE /\ data' = <<>>
                /\ i' = 0
                /\ j' = 0
                /\ pc' = "data_loop"
                /\ UNCHANGED result
    /\ UNCHANGED <<args, dims, data_pos, csvDims, hdrp, hdr, token, ub, acc>>

\* one turn of the inner loop: csv_tokenize, the missing count, malloc of the
\* cell, the copy into data[i][j]
DataField ==
    /\ pc = "data_loop"
    /\ i < csvRows
    /\ LET t == csv_tokenize(file, pos, buflen)
           oobT == t.top > buflen
           ubT == IF oobT THEN {"tmp_store_oob"} ELSE {}
       IN
       /\ pos' = t.pos
       /\ tmp' = t.buf
       /\ tokStart' = pos
       /\ tokTop' = t.top
       /\ tokStatus' = t.status
       /\ status' = t.status
       /\ ub' = ub \cup ubT
       /\ \E crash \in BOOLEAN, fail \in BOOLEAN :
           /\ crash => oobT
           /\ IF crash
              THEN Crash /\ UNCHANGED <<missing, heap, data, i, j>>
              ELSE IF t.status # CSV_SUCCESS
              THEN Stop(t.status) /\ UNCHANGED <<missing, heap, data, i, j>>
              ELSE /\ missing' = IF IsMissing(t.buf) THEN missing + 1 ELSE missing
                   /\ IF fail
                      THEN Stop(CSV_MALLOC_FAILED) /\ UNCHANGED <<heap, data, i, j>>
                      ELSE /\ heap' = heap \cup {B_cell(i, j)}
                           /\ data' = Append(data, t.buf)
                           /\ j' = IF j + 1 < csvCols THEN j + 1 ELSE 0
                           /\ i' = IF j + 1 < csvCols THEN i ELSE i + 1
                           /\ UNCHANGED <<pc, result>>
    /\ UNCHANGED <<args, dims, data_pos, csvDims, hdrp, hdr, acc>>

\* after the loops: free(tmp), return status; then the tail of csv_read
DataDone ==
    /\ pc = "data_loop"
    /\ i = csvRows
    /\ heap' = heap \ {B_dtmp}
    /\ IF status # CSV_SUCCESS THEN Stop(status)
       ELSE IF total <= missing THEN Stop(CSV_UNKNOWN_FATAL_ERROR)
       ELSE Success
    /\ UNCHANGED <<args, pos, dims, data_pos, status, csvDims, missing, hdrp, hdr,
                   data, i, j, token, ub, acc>>

(***************************************************************************)
(* csv_free.  The first loop reads csv->header[i] for every i < csv->cols  *)
(* without a test of csv->header: with header == NULL (a Document read     *)
(* with header = false) the read dereferences a null pointer, and with a   *)
(* header array of csv->rows < csv->cols pointers it reads past the block. *)
(* Both are undefined: the process is terminated, or goes on and frees     *)
(* what it read (after a null dereference: pointers that malloc never      *)
(* returned).                                                              *)
(***************************************************************************)
\* the blocks csv_free passes to free, given a header array
FreedBlocks ==
    (IF hdrp = "alloc"
     THEN {B_hname(k) : k \in 0..(csvCols - 1)} \cup {B_header}
     ELSE {})
    \cup {B_cell(r, c) : r \in 0..(csvRows - 1), c \in 0..(csvCols - 1)}
    \cup {B_row(r) : r \in 0..(csvRows - 1)}
    \cup {B_data, B_csv}

csv_free ==
    /\ pc = "returned"
    /\ ret = "doc"
    /\ acc = NoCall
    /\ LET nullHdr == hdrp # "alloc" /\ csvCols > 0
           pastHdr == hdrp = "alloc" /\ csvCols > csvRows
       IN
       \E crash \in BOOLEAN :
           /\ crash => nullHdr \/ pastHdr
           /\ ub' = ub \cup (IF nullHdr THEN {"null_deref"} ELSE {})
                      \cup (IF pastHdr THEN {"header_read_oob"} ELSE {})
                      \cup (IF nullHdr /\ ~crash THEN {"bad_free"} ELSE {})
           /\ IF crash
              THEN pc' = "crashed" /\ UNCHANGED heap
              ELSE pc' = "freed" /\ heap' = heap \ FreedBlocks
    /\ UNCHANGED <<args, pos, dims, data_pos, status, result, csvDims, missing,
                   hdrp, hdr, data, i, j, token, acc>>

(***************************************************************************)
(* The typed accessors.                                                    *)
(*                                                                         *)
(* strtol and strtod on the bytes of the model.  A line terminator is      *)
(* white space; 1 and 9 are decimal digits; - is the sign; the letters a   *)
(* and e are digits of the bases above 10 and 14 only, and e starts the    *)
(* exponent of a floating literal; a comma or a quote ends the number.     *)
(* end is the number of bytes of s before the byte end points at.  A       *)
(* number is held as its sign and the sequence of its digits, so that      *)
(* values beyond the range of long are compared exactly.  The valid base   *)
(* the model calls strtol with is 10; the range of long is that of a       *)
(* 64-bit long, LONG_MAX = 9223372036854775807.                            *)
(*                                                                         *)
(* With an invalid base strtol stores EINVAL and returns 0; whether it     *)
(* stores s into the end pointer or leaves it untouched (NULL, as the      *)
(* caller set it) depends on the C library: endSet chooses.  On overflow   *)
(* strtod returns HUGE_VAL and stores ERANGE; on underflow it returns a    *)
(* value no greater than the smallest normalized double, and whether it    *)
(* stores ERANGE depends on the C library: uflow chooses.                  *)
(***************************************************************************)
NINE == "9"
MINUS == "-"
LETTER_A == "a"
LETTER_E == "e"
Bases == {10, 1}
ValidBase(base) == base = 0 \/ (2 <= base /\ base <= 36)

LONG_MAX == <<9, 2, 2, 3, 3, 7, 2, 0, 3, 6, 8, 5, 4, 7, 7, 5, 8, 0, 7>>
LONG_MIN == <<9, 2, 2, 3, 3, 7, 2, 0, 3, 6, 8, 5, 4, 7, 7, 5, 8, 0, 8>>
DBL_MAX_10_EXP == 308
DBL_MIN_10_EXP == 307

RECURSIVE LeadingCount(_, _, _)
\* the number of bytes of s from index k on that are equal to c
LeadingCount(s, k, c) ==
    IF k > Len(s) \/ s[k] # c THEN 0 ELSE 1 + LeadingCount(s, k + 1, c)

\* the value of a byte as a digit (99: a digit of no base)
ByteValue(c) ==
    IF c = DIGIT THEN 1 ELSE IF c = NINE THEN 9
    ELSE IF c = LETTER_A THEN 10 ELSE IF c = LETTER_E THEN 14 ELSE 99

RECURSIVE DigitRun(_, _, _)
\* the number of bytes of s from index k on that are digits of the radix
DigitRun(s, k, radix) ==
    IF k > Len(s) \/ ByteValue(s[k]) >= radix THEN 0 ELSE 1 + DigitRun(s, k + 1, radix)

\* the digits of the n bytes of s from index k on
DigitsAt(s, k, n) == [m \in 1..n |-> ByteValue(s[k + m - 1])]

\* a > b, for two numbers given by their digits, neither with a leading zero
Greater(a, b) ==
    \/ Len(a) > Len(b)
    \/ /\ Len(a) = Len(b)
       /\ \E k \in 1..Len(a) : a[k] > b[k] /\ \A m \in 1..(k - 1) : a[m] = b[m]

RECURSIVE DecValue(_, _, _)
\* the value of the n decimal digits of s from index k on
DecValue(s, k, n) ==
    IF n = 0 THEN 0 ELSE DecValue(s, k, n - 1) * 10 + ByteValue(s[k + n - 1])

\* the start of a number in s: white space, then a sign or none; neg tells the
\* sign, start is the number of bytes before the first digit
PrefixAt(s, ws) ==
    [neg |-> ws < Len(s) /\ s[ws + 1] = MINUS,
     start |-> IF ws < Len(s) /\ s[ws + 1] = MINUS THEN ws + 1 ELSE ws]
Prefix(s) == PrefixAt(s, LeadingCount(s, 1, LF))

\* strtol, from the digits on: no digit, a value beyond LONG_MAX or LONG_MIN,
\* or the value
strtol_value(neg, mag, end) ==
    IF ~neg /\ Greater(mag, LONG_MAX)
    THEN [end |-> end, endNull |-> FALSE, val |-> [neg |-> FALSE, mag |-> LONG_MAX],
          errno |-> "ERANGE", sat |-> "max"]
    ELSE IF neg /\ Greater(mag, LONG_MIN)
    THEN [end |-> end, endNull |-> FALSE, val |-> [neg |-> TRUE, mag |-> LONG_MIN],
          errno |-> "ERANGE", sat |-> "min"]
    ELSE [end |-> end, endNull |-> FALSE, val |-> [neg |-> neg, mag |-> mag],
          errno |-> "0", sat |-> "no"]

strtol_digits(s, pre, n) ==
    IF n = 0
    THEN [end |-> 0, endNull |-> FALSE, val |-> [neg |-> FALSE, mag |-> <<>>],
          errno |-> "0", sat |-> "no"]
    ELSE strtol_value(pre.neg, DigitsAt(s, pre.start + 1, n), pre.start + n)

strtol_scan(s, radix, pre) == strtol_digits(s, pre, DigitRun(s, pre.start + 1, radix))

strtol(s, base, endSet) ==
    IF ~ValidBase(base)
    THEN [end |-> 0, endNull |-> ~endSet, val |-> [neg |-> FALSE, mag |-> <<>>],
          errno |-> "EINVAL", sat |-> "no"]
    ELSE strtol_scan(s, IF base = 0 THEN 10 ELSE base, Prefix(s))

\* the exponent of a floating literal at index p of s: the letter e, a sign or
\* none, a run of m digits.  Without a digit after the letter there is no
\* exponent (m = 0) and the letter is not consumed.  last is the index of the
\* last byte of the exponent.
ExponentValue(s, expNeg, q, m) ==
    [m |-> m, neg |-> expNeg /\ m > 0, e |-> DecValue(s, q, m), last |-> q + m - 1]
ExponentDigits(s, expNeg, q) == ExponentValue(s, expNeg, q, DigitRun(s, q, 10))
ExponentAt(s, p, expNeg) == ExponentDigits(s, expNeg, IF expNeg THEN p + 2 ELSE p + 1)
Exponent(s, p) ==
    IF p <= Len(s) /\ s[p] = LETTER_E
    THEN ExponentAt(s, p, p < Len(s) /\ s[p + 1] = MINUS)
    ELSE [m |-> 0, neg |-> FALSE, e |-> 0, last |-> 0]

\* a double is held as its class (finite, HUGE_VAL, tiny: zero or subnormal),
\* its sign, the digits of its mantissa and its decimal exponent.  The range
\* test takes the exponent of the leading digit; it is exact for every
\* literal that is not within one decade of DBL_MAX or DBL_MIN.
strtod_class(n, ex) ==
    IF ex.m > 0 /\ ~ex.neg /\ (n - 1) + ex.e > DBL_MAX_10_EXP THEN "HUGE_VAL"
    ELSE IF ex.m > 0 /\ ex.neg /\ ex.e > (n - 1) + DBL_MIN_10_EXP THEN "tiny"
    ELSE "finite"

strtod_value(uflow, pre, mag, ex, class) ==
    [end |-> IF ex.m = 0 THEN pre.start + Len(mag) ELSE ex.last,
     endNull |-> FALSE,
     val |-> [class |-> class, neg |-> pre.neg, mag |-> mag,
              expNeg |-> ex.neg, exp |-> ex.e],
     errno |-> IF class = "HUGE_VAL" \/ (class = "tiny" /\ uflow) THEN "ERANGE" ELSE "0",
     sat |-> IF class = "HUGE_VAL" THEN "max" ELSE IF class = "tiny" THEN "min" ELSE "no"]

strtod_exp(s, uflow, pre, n, ex) ==
    strtod_value(uflow, pre, DigitsAt(s, pre.start + 1, n), ex, strtod_class(n, ex))

strtod_digits(s, uflow, pre, n) ==
    IF n = 0
    THEN [end |-> 0, endNull |-> FALSE,
          val |-> [class |-> "finite", neg |-> FALSE, mag |-> <<>>,
                   expNeg |-> FALSE, exp |-> 0],
          errno |-> "0", sat |-> "no"]
    ELSE strtod_exp(s, uflow, pre, n, Exponent(s, pre.start + n + 1))

strtod_scan(s, uflow, pre) == strtod_digits(s, uflow, pre, DigitRun(s, pre.start + 1, 10))

strtod(s, uflow) == strtod_scan(s, uflow, Prefix(s))

\* the result of a turn of the loop that stops with the code, errno as it is
Stopped(code, errno) == [err |-> code, val |-> 0, errno |-> errno]

\* the tests of csv_rowl and csv_coll without the first, the test of the end
\* pointer: a cell without a digit goes on to the later tests
ClassifyLong_nofail(r, len) ==
    IF r.errno = "ERANGE" /\ r.sat = "min" THEN Stopped(CSV_READ_UNDERFLOW, r.errno)
    ELSE IF r.errno = "ERANGE" /\ r.sat = "max" THEN Stopped(CSV_READ_OVERFLOW, r.errno)
    ELSE IF r.errno = "EINVAL" THEN Stopped(CSV_INVALID_BASE, r.errno)
    ELSE IF r.errno = "0" /\ r.end < len THEN Stopped(CSV_READ_PARTIAL, r.errno)
    ELSE IF r.errno # "0" THEN Stopped(CSV_UNKNOWN_FATAL_ERROR, r.errno)
    ELSE [err |-> CSV_SUCCESS, val |-> r.val, errno |-> r.errno]

\* the tests of csv_rowl and csv_coll on what strtol returned for a cell of len
\* bytes: r.end = 0 is end == csv->data[i][j], r.end < len is that the byte
\* at end is not the NUL
ClassifyLong(r, len) ==
    IF ~r.endNull /\ r.end = 0 THEN Stopped(CSV_READ_FAIL, r.errno)
    ELSE IF r.errno = "ERANGE" /\ r.sat = "min" THEN Stopped(CSV_READ_UNDERFLOW, r.errno)
    ELSE IF r.errno = "ERANGE" /\ r.sat = "max" THEN Stopped(CSV_READ_OVERFLOW, r.errno)
    ELSE IF r.errno = "EINVAL" THEN Stopped(CSV_INVALID_BASE, r.errno)
    ELSE IF r.errno = "0" /\ r.end < len THEN Stopped(CSV_READ_PARTIAL, r.errno)
    ELSE IF r.errno # "0" THEN Stopped(CSV_UNKNOWN_FATAL_ERROR, r.errno)
    ELSE [err |-> CSV_SUCCESS, val |-> r.val, errno |-> r.errno]

\* the body of the loop of csv_rowl and csv_coll for one cell s; errno is the
\* value of errno the body leaves
ConvertLong(s, base, endSet) ==
    IF s = <<>> THEN Stopped(CSV_MISSING_DATA, "0")
    ELSE ClassifyLong(strtol(s, base, endSet), Len(s))

\* the tests of csv_rowd and csv_cold without the last, the test of errno: a
\* conversion that reported a range error is taken as a success
ClassifyDouble_accept(r, len) ==
    IF ~r.endNull /\ r.end = 0 THEN Stopped(CSV_READ_FAIL, r.errno)
    ELSE IF r.errno = "0" /\ r.end < len THEN Stopped(CSV_READ_PARTIAL, r.errno)
    ELSE [err |-> CSV_SUCCESS, val |-> r.val, errno |-> r.errno]

\* the tests of csv_rowd and csv_cold on what strtod returned
ClassifyDouble(r, len) ==
    IF ~r.endNull /\ r.end = 0 THEN Stopped(CSV_READ_FAIL, r.errno)
    ELSE IF r.errno = "0" /\ r.end < len THEN Stopped(CSV_READ_PARTIAL, r.errno)
    ELSE IF r.errno # "0" THEN Stopped(CSV_UNKNOWN_FATAL_ERROR, r.errno)
    ELSE [err |-> CSV_SUCCESS, val |-> r.val, errno |-> r.errno]

\* the body of the loop of csv_rowd and csv_cold for one cell s
ConvertDouble(s, uflow) ==
    IF s = <<>> THEN Stopped(CSV_MISSING_DATA, "0")
    ELSE ClassifyDouble(strtod(s, uflow), Len(s))

\* the body of the loop of csv_rowc and csv_colc for one cell s
ConvertChar(s) ==
    IF s = <<>> THEN Stopped(CSV_MISSING_DATA, "0")
    ELSE [err |-> CSV_SUCCESS, val |-> s[1], errno |-> "0"]

\* the conversion made before the test of the empty cell: an empty cell is
\* handed to strtol or strtod, which consume nothing of it
Convert_late(kind, s, base, endSet, uflow) ==
    IF kind = "l" THEN ClassifyLong(strtol(s, base, endSet), Len(s))
    ELSE IF kind = "d" THEN ClassifyDouble(strtod(s, uflow), Len(s))
    ELSE ConvertChar(s)

Convert(kind, s, base, endSet, uflow) ==
    IF kind = "l" THEN ConvertLong(s, base, endSet)
    ELSE IF kind = "d" THEN ConvertDouble(s, uflow)
    ELSE ConvertChar(s)

\* the string data[r][c]; outside the rows x cols table the read is undefined
\* and yields g
Cell(r, c, g) ==
    IF r < csvRows /\ c < csvCols THEN data[r * csvCols + c + 1] ELSE g

\* the loop of an accessor over the cells along row or column idx, from the
\* k-th on: the first error, or the n converted values, and errno as the last
\* turn of the loop left it.  AlongStep is the end of a turn, c the outcome of
\* its conversion.
RECURSIVE Along(_, _, _, _, _, _, _, _, _, _)
RECURSIVE AlongStep(_, _, _, _, _, _, _, _, _, _, _)
AlongStep(c, kind, byRow, idx, n, k, vals, base, endSet, uflow, g) ==
    IF c.err # CSV_SUCCESS THEN [err |-> c.err, vals |-> <<>>, errno |-> c.errno]
    ELSE Along(kind, byRow, idx, n, k + 1, Append(vals, c.val), base, endSet, uflow, g)

Along(kind, byRow, idx, n, k, vals, base, endSet, uflow, g) ==
    IF k = n THEN [err |-> CSV_SUCCESS, vals |-> vals, errno |-> "0"]
    ELSE AlongStep(Convert(kind, IF byRow THEN Cell(idx, k, g) ELSE Cell(k, idx, g),
                           base, endSet, uflow),
                   kind, byRow, idx, n, k, vals, base, endSet, uflow, g)

(***************************************************************************)
(* One call of an accessor on the Document csv_read returned.  limit is    *)
(* the bound the function tests idx against and n the length of the array  *)
(* it allocates and fills.  The accessors leave the Document as it is, so  *)
(* a run calls one accessor, or csv_free.  A read of a cell outside the    *)
(* table is undefined: the process is terminated, or the read yields some  *)
(* string g.  acc.errno is errno when the call returns (0 when the call    *)
(* began); a failed malloc stores ENOMEM.                                  *)
(***************************************************************************)
Garbage == {<<>>, <<DIGIT>>}

\* what the call leaves: r is the outcome of its loop
Outcome(fn, idx, base, limit, fail, crash, r) ==
    IF idx >= limit
    THEN [fn |-> fn, idx |-> idx, base |-> base, ret |-> "NULL",
          vals |-> <<>>, error |-> CSV_PARAM_OUT_OF_BOUNDS, errno |-> "0",
          live |-> FALSE]
    ELSE IF fail
    THEN [fn |-> fn, idx |-> idx, base |-> base, ret |-> "NULL",
          vals |-> <<>>, error |-> CSV_MALLOC_FAILED, errno |-> "ENOMEM",
          live |-> FALSE]
    ELSE IF crash
    THEN [fn |-> fn, idx |-> idx, base |-> base, ret |-> "none",
          vals |-> <<>>, error |-> CSV_UNDEFINED, errno |-> "0", live |-> TRUE]
    ELSE IF r.err # CSV_SUCCESS
    THEN [fn |-> fn, idx |-> idx, base |-> base, ret |-> "NULL",
          vals |-> <<>>, error |-> r.err, errno |-> r.errno, live |-> FALSE]
    ELSE [fn |-> fn, idx |-> idx, base |-> base, ret |-> "array",
          vals |-> r.vals, error |-> CSV_SUCCESS, errno |-> r.errno, live |-> TRUE]

Accessor(fn, kind, byRow, limit, n) ==
    /\ pc = "returned"
    /\ ret = "doc"
    /\ acc = NoCall
    /\ \E idx \in 0..MaxIndex, base \in Bases, fail \in BOOLEAN, endSet \in BOOLEAN,
          uflow \in BOOLEAN, g \in Garbage, crash \in BOOLEAN :
        LET inTable == IF byRow THEN idx < csvRows ELSE idx < csvCols
            outside == idx < limit /\ ~fail /\ n > 0 /\ ~inTable
        IN
        /\ kind # "l" => base = 10
        /\ (kind # "l" \/ ValidBase(base)) => endSet
        /\ kind # "d" => uflow
        /\ ~outside => g = <<>>
        /\ crash => outside
        /\ ub' = IF outside THEN ub \cup {"cell_read_oob"} ELSE ub
        /\ pc' = IF crash THEN "crashed" ELSE pc
        /\ acc' = Outcome(fn, idx, IF kind = "l" THEN base ELSE 0, limit, fail, crash,
                          Along(kind, byRow, idx, n, 0, <<>>, base, endSet, uflow, g))
    /\ UNCHANGED <<args, pos, dims, data_pos, status, result, csvDims, missing,
                   hdrp, hdr, data, i, j, token, heap>>

csv_rowl == Accessor("csv_rowl", "l", TRUE, csvRows, csvCols)
csv_coll == Accessor("csv_coll", "l", FALSE, csvCols, csvRows)
csv_rowc == Accessor("csv_rowc", "c", TRUE, csvRows, csvCols)
csv_colc == Accessor("csv_colc", "c", FALSE, csvRows, csvRows)
csv_rowd == Accessor("csv_rowd", "d", TRUE, csvRows, csvCols)
csv_cold == Accessor("csv_cold", "d", FALSE, csvCols, csvRows)

Next ==
    \/ ReadOpen
    \/ ReadDims
    \/ ReadAlloc
    \/ HeaderStart
    \/ HeaderField
    \/ HeaderDone
    \/ DataStart
    \/ DataField
    \/ DataDone
    \/ csv_free
    \/ csv_rowl
    \/ csv_coll
    \/ csv_rowc
    \/ csv_colc
    \/ csv_rowd
    \/ csv_cold

Spec == Init /\ [][Next]_vars

(***************************************************************************)
(* The conversions of the accessors on numeric cells.  The files are two   *)
(* cells, side by side or one above the other, read with header = false    *)
(* into the buffer of the size csv.h sets.  The first cell is an integer   *)
(* literal (a sign, a run of digits 1 or of digits 9, a trailing letter,   *)
(* each present or not) or a floating literal 1e.. with an exponent of     *)
(* digits 9; the runs are long enough to pass the range of long and of     *)
(* double.                                                                 *)
(***************************************************************************)
\* longest run of digits of an integer literal
MaxDigits == 20
\* longest run of digits of an exponent
MaxExpDigits == 3
\* the value csv.h gives CSV_TEMPORARY_BUFFER_LENGTH
SourceBufferLength == 1024

Run(c, n) == [k \in 1..n |-> c]
Signs == {<<>>, <<MINUS>>}
Tails == {<<>>, <<LETTER_A>>}
IntCells ==
    {sign \o Run(d, n) \o tail :
        sign \in Signs, d \in {DIGIT, NINE}, n \in 0..MaxDigits, tail \in Tails}
ExpCells ==
    {<<DIGIT, LETTER_E>> \o sign \o Run(NINE, m) \o tail :
        sign \in Signs, m \in 0..MaxExpDigits, tail \in Tails}
ConvCells == IntCells \cup ExpCells
SecondCells == {<<>>, <<DIGIT>>}
ConvFiles ==
    {c0 \o <<sep>> \o c1 : c0 \in ConvCells, sep \in {COMMA, LF}, c1 \in SecondCells}

ConvInit ==
    /\ fname = "ok"
    /\ file \in ConvFiles
    /\ header = FALSE
    /\ buflen = SourceBufferLength
    /\ pc = "open"
    /\ pos = 1
    /\ rows = 0
    /\ cols = 0
    /\ data_pos = 1
    /\ status = CSV_UNDEFINED
    /\ error = CSV_UNDEFINED
    /\ errorWritten = FALSE
    /\ ret = "none"
    /\ csvRows = 0
    /\ csvCols = 0
    /\ total = 0
    /\ missing = 0
    /\ hdrp = "uninit"
    /\ hdr = <<>>
    /\ data = <<>>
    /\ i = 0
    /\ j = 0
    /\ tmp = <<>>
    /\ tokStart = 0
    /\ tokTop = 0
    /\ tokStatus = CSV_UNDEFINED
    /\ heap = {}
    /\ ub = {}
    /\ acc = NoCall

ConvNext ==
    \/ ReadOpen
    \/ ReadDims
    \/ ReadAlloc
    \/ DataStart
    \/ DataField
    \/ DataDone
    \/ csv_rowl
    \/ csv_coll
    \/ csv_rowd
    \/ csv_cold

ConvSpec == ConvInit /\ [][ConvNext]_vars

(***************************************************************************)
(* Properties.                                                             *)
(***************************************************************************)
\* csv_tokenize has been called, at a position where a field of a
\* well-formed file starts; RefAtCall is that field by the grammar
TokenizedAtFieldStart ==
    /\ tokStart > 0
    /\ WellFormed(file)
    /\ tokStart \in RefParse(file).starts
RefAtCall == RefField(file, tokStart)
HasDelimiter(text) == \E k \in 1..Len(text) : text[k] = COMMA \/ text[k] = LF

\* C1: a quoted field whose content holds a comma or a line terminator is
\* decoded by csv_tokenize as one field, the delimiter kept literally, and the
\* call ends after the delimiter that follows the closing quote.
C1_QuotedDelimiterKept ==
    (TokenizedAtFieldStart /\ RefAtCall.quoted /\ HasDelimiter(RefAtCall.text))
        => (tokStatus = CSV_SUCCESS /\ tmp = RefAtCall.text /\ pos = RefAtCall.pos)

\* C2: a well-formed quoted field (here: one without a delimiter in it) is
\* decoded by csv_tokenize to its content, the enclosing quotes stripped and
\* each doubled quote decoded to one quote; "" decodes to the empty string.
C2_QuotesDecoded ==
    (TokenizedAtFieldStart /\ RefAtCall.quoted /\ ~HasDelimiter(RefAtCall.text)
                           /\ Len(RefAtCall.text) < buflen)
        => (tokStatus = CSV_SUCCESS /\ tmp = RefAtCall.text /\ pos = RefAtCall.pos)

\* the records of the file by the grammar, and the row count a read of a
\* well-formed file of one header row and n data rows is to report
Records == RefParse(file).recs
ExpectedRows == IF header THEN Len(Records) - 1 ELSE Len(Records)
HasRecords == WellFormed(file) /\ Len(file) > 0
Unquoted == \A k \in 1..Len(file) : file[k] # QUOTE
DimsKnown == pc \in {"alloc", "hdr_start", "hdr_loop", "data_start", "data_loop"}

RowAccessors == {"csv_rowl", "csv_rowc", "csv_rowd"}
AccInRange == IF acc.fn \in RowAccessors THEN acc.idx < csvRows ELSE acc.idx < csvCols
C4_IndexChecked ==
    /\ "cell_read_oob" \notin ub
    /\ acc.fn # "none" =>
        /\ (acc.error # CSV_PARAM_OUT_OF_BOUNDS) <=> AccInRange
        /\ acc.error = CSV_PARAM_OUT_OF_BOUNDS => acc.ret = "NULL"

\* C5: when csv_read fails after the file was opened, every block the call
\* obtained has been released when it returns NULL.
C5_FailureReleasesAll ==
    (pc = "returned" /\ ret = "NULL" /\ fname = "ok") => heap = {}

\* C6: csv_free of a returned Document, read with or without a header,
\* releases every block of it once and never dereferences an absent header.
C6_FreeReleasesAll ==
    /\ "null_deref" \notin ub
    /\ pc = "freed" => heap = {} /\ "bad_free" \notin ub

\* C7: csv_tokenize stores no byte at an index >= n, and returns
\* CSV_BUFFER_OVERFLOW for every field whose decoded length is n or more.
C7_BufferBounded ==
    tokStart > 0 =>
        /\ tokTop <= buflen
        /\ Len(tmp) >= buflen => tokStatus = CSV_BUFFER_OVERFLOW

\* C8: the header of a Document read with header = true holds cols names, and
\* every store header[i] lies inside the block allocated for the header.
C8_HeaderStoresInside ==
    /\ "header_store_oob" \notin ub
    /\ (header /\ (pc \in {"data_start", "data_loop"} \/ ret = "doc"))
           => Len(hdr) = csvCols

\* C9: when csv_read returns, the error variable is CSV_SUCCESS exactly when a
\* Document is returned, and otherwise one of the failure codes 1..17, never
\* CSV_UNDEFINED.
C9_ErrorCode ==
    pc = "returned" =>
        /\ errorWritten
        /\ (error = CSV_SUCCESS) <=> (ret = "doc")
        /\ ret = "NULL" => error \in 1..17

\* C10: in every Document csv_read returns (and at every turn of the loop that
\* fills it) missing is the number of cells whose decoded field is the empty
\* string.
\* For a well-formed file without quoted fields, every record of as many
\* fields, it is also the number of empty fields of the data records by the
\* grammar.
EmptyCells == Cardinality({k \in 1..Len(data) : data[k] = <<>>})
DataRecords == IF header THEN Tail(Records) ELSE Records
EmptyFields ==
    Cardinality({c \in (1..Len(DataRecords)) \X (1..Len(Records[1])) :
                    DataRecords[c[1]][c[2]] = <<>>})
C10_MissingCounted ==
    /\ (pc = "data_loop" \/ ret = "doc") => missing = EmptyCells
    /\ ret = "doc" => Len(data) = csvRows * csvCols
    /\ (ret = "doc" /\ HasRecords /\ Rectangular(file) /\ Unquoted)
           => missing = EmptyFields

\* C10 witness: the Document of the file 1,,1 with its one empty field
C10_Witness ==
    /\ ret = "doc"
    /\ file = <<DIGIT, COMMA, COMMA, DIGIT>>
    /\ data = <<(<<DIGIT>>), <<>>, (<<DIGIT>>)>>
    /\ missing = 1

\* the call of an accessor that has returned, and the cells along the row or
\* column it was asked for, as they lie in the table
AccCalled == acc.fn # "none" /\ acc.ret # "none"
AccKind ==
    IF acc.fn \in {"csv_rowl", "csv_coll"} THEN "l"
    ELSE IF acc.fn \in {"csv_rowd", "csv_cold"} THEN "d" ELSE "c"
AccByRow == acc.fn \in RowAccessors
AccLen == IF AccByRow THEN csvCols ELSE csvRows
AccCell(k) ==
    IF AccByRow THEN data[acc.idx * csvCols + k + 1] ELSE data[k * csvCols + acc.idx + 1]
\* the call went past the index test and the allocation, for a row or column
\* of the table
AccReached ==
    /\ AccCalled
    /\ AccInRange
    /\ acc.error \notin {CSV_PARAM_OUT_OF_BOUNDS, CSV_MALLOC_FAILED}
EmptyAt == {k \in 0..(AccLen - 1) : AccCell(k) = <<>>}
AllDigits(s) == s # <<>> /\ \A k \in 1..Len(s) : s[k] = DIGIT

\* C11 (amended): every accessor is all-or-nothing.  A call that fails returns
\* NULL with its output array released; an array is returned only with
\* CSV_SUCCESS, every cell along the row or column non-empty and converted.  If
\* a cell along the row or column is empty the call fails, and it fails with
\* CSV_MISSING_DATA, that cell not converted (an invalid base is not reported
\* for it), when no cell before it failed its conversion; CSV_MISSING_DATA is
\* reported for an empty cell only.
C11_AllOrNothing ==
    AccCalled =>
        /\ acc.ret = "NULL" => ~acc.live /\ acc.error # CSV_SUCCESS /\ acc.vals = <<>>
        /\ acc.ret = "array" => acc.live /\ acc.error = CSV_SUCCESS
        /\ AccReached =>
            /\ acc.ret = "array" => EmptyAt = {} /\ Len(acc.vals) = AccLen
            /\ EmptyAt # {} => acc.ret = "NULL"
            /\ acc.error = CSV_MISSING_DATA => EmptyAt # {}
            /\ (AccKind = "c" /\ EmptyAt # {}) => acc.error = CSV_MISSING_DATA
            /\ \A k \in EmptyAt :
                    ( /\ \A m \in 0..(k - 1) : AllDigits(AccCell(m))
                      /\ (k = 0 \/ AccKind # "l" \/ ValidBase(acc.base)) )
                    => acc.error = CSV_MISSING_DATA

\* C11 witness: csv_rowl on the row 1, of one cell converted and one empty:
\* the call fails with CSV_MISSING_DATA, the array released
C11_Witness ==
    /\ acc.fn = "csv_rowl"
    /\ acc.idx = 0
    /\ data = <<(<<DIGIT>>), <<>>>>
    /\ csvCols = 2
    /\ acc.error = CSV_MISSING_DATA
    /\ acc.ret = "NULL"
    /\ ~acc.live

\* C11 as claimed: whenever a cell along the requested row or column is empty,
\* the call fails with CSV_MISSING_DATA (an index outside the table, a failed
\* allocation and an invalid base set aside)
C11_Original ==
    (AccReached /\ EmptyAt # {} /\ (AccKind = "l" => ValidBase(acc.base)))
        => (acc.error = CSV_MISSING_DATA /\ acc.ret = "NULL" /\ ~acc.live)

(***************************************************************************)
(* Numeric literals, stated on the bytes of a cell.                        *)
(***************************************************************************)
\* u is a sign or none, then one decimal digit or more
IsNumeral(u) ==
    /\ Len(u) >= 1
    /\ LET d == IF u[1] = MINUS THEN Tail(u) ELSE u IN
       Len(d) >= 1 /\ \A k \in 1..Len(d) : d[k] \in {DIGIT, NINE}
\* u is a numeral, or a numeral, the letter e and a numeral
IsFloatLiteral(u) ==
    \/ IsNumeral(u)
    \/ \E p \in 2..(Len(u) - 1) :
           /\ u[p] = LETTER_E
           /\ IsNumeral(SubSeq(u, 1, p - 1))
           /\ IsNumeral(SubSeq(u, p + 1, Len(u)))
\* the lengths of the prefixes of t that are integer, floating literals
IntPrefixes(t) == {k \in 1..Len(t) : IsNumeral(SubSeq(t, 1, k))}
FloatPrefixes(t) == {k \in 1..Len(t) : IsFloatLiteral(SubSeq(t, 1, k))}
\* the digits of the numeral u, and its place against the range of long
NumeralDigits(u) ==
    LET d == IF u[1] = MINUS THEN Tail(u) ELSE u IN
    [k \in 1..Len(d) |-> IF d[k] = DIGIT THEN 1 ELSE 9]
LongestInt(t) == SubSeq(t, 1, CHOOSE k \in IntPrefixes(t) : \A m \in IntPrefixes(t) : m <= k)
AboveLong(t) ==
    /\ IntPrefixes(t) # {}
    /\ t[1] # MINUS
    /\ Greater(NumeralDigits(LongestInt(t)), LONG_MAX)
BelowLong(t) ==
    /\ IntPrefixes(t) # {}
    /\ t[1] = MINUS
    /\ Greater(NumeralDigits(LongestInt(t)), LONG_MIN)
LongestFloat(t) ==
    SubSeq(t, 1, CHOOSE k \in FloatPrefixes(t) : \A m \in FloatPrefixes(t) : m <= k)
\* 1e999 and longer exponents: above DBL_MAX; 1e-999 and longer: below DBL_MIN
HugeLiteral(t) == \E m \in 3..(MaxExpDigits + 1) : t = <<DIGIT, LETTER_E>> \o Run(NINE, m)
TinyLiteral(t) ==
    \E m \in 3..(MaxExpDigits + 1) : t = <<DIGIT, LETTER_E, MINUS>> \o Run(NINE, m)
\* the floating literal t starts with is out of range
StartsHuge(t) == FloatPrefixes(t) # {} /\ HugeLiteral(LongestFloat(t))
StartsTiny(t) == FloatPrefixes(t) # {} /\ TinyLiteral(LongestFloat(t))

\* a call of csv_rowd or csv_cold, of csv_rowl or csv_coll, that went past the
\* index test and the allocation, for a row or column of the table
DoubleCall == AccReached /\ AccKind = "d"
LongCall == AccReached /\ AccKind = "l"
\* the cells before the k-th along the row or column are numerals in the range
\* of long
NumeralsBefore(k) ==
    \A m \in 0..(k - 1) :
        /\ IsNumeral(AccCell(m))
        /\ ~AboveLong(AccCell(m))
        /\ ~BelowLong(AccCell(m))
FloatsBefore(k) ==
    \A m \in 0..(k - 1) :
        /\ IsFloatLiteral(AccCell(m))
        /\ ~HugeLiteral(AccCell(m))
        /\ ~TinyLiteral(AccCell(m))

C13_LongClassified ==
    LongCall =>
        /\ \A k \in 0..(AccLen - 1) :
               LET t == AccCell(k) IN
               (NumeralsBefore(k) /\ (k > 0 => ValidBase(acc.base))) =>
                   /\ t = <<>> => acc.error = CSV_MISSING_DATA
                   /\ (t # <<>> /\ ~ValidBase(acc.base))
                          => acc.error \in {CSV_INVALID_BASE, CSV_READ_FAIL}
                   /\ (t # <<>> /\ ValidBase(acc.base)) =>
                          /\ IntPrefixes(t) = {} => acc.error = CSV_READ_FAIL
                          /\ AboveLong(t) => acc.error = CSV_READ_OVERFLOW
                          /\ BelowLong(t) => acc.error = CSV_READ_UNDERFLOW
                          /\ ( /\ IntPrefixes(t) # {}
                               /\ ~AboveLong(t)
                               /\ ~BelowLong(t)
                               /\ Len(t) \notin IntPrefixes(t) )
                                 => acc.error = CSV_READ_PARTIAL
        /\ acc.error = CSV_SUCCESS =>
               /\ ValidBase(acc.base)
               /\ NumeralsBefore(AccLen)
               /\ acc.ret = "array"
               /\ \A k \in 0..(AccLen - 1) :
                      /\ acc.vals[k + 1].mag = NumeralDigits(AccCell(k))
                      /\ acc.vals[k + 1].neg = (AccCell(k)[1] = MINUS)
        /\ acc.error # CSV_SUCCESS => acc.ret = "NULL" /\ ~acc.live

\* C13 witness: csv_rowl, base 10, on a row whose first cell is twenty digits
\* 9 fails with CSV_READ_OVERFLOW
C13_Witness ==
    /\ acc.fn = "csv_rowl"
    /\ acc.idx = 0
    /\ acc.base = 10
    /\ AccReached
    /\ AccCell(0) = Run(NINE, 20)
    /\ acc.error = CSV_READ_OVERFLOW
    /\ acc.ret = "NULL"

\* the fields of a well-formed file of records of equal length, by the
\* grammar: the number of fields of a record, the n-th field of the file and
\* the position it starts at, the number of fields of the header row, and the
\* position of the first byte of the first data row (end-of-stream if none)
RefCols == Len(Records[1])
NumFields == Len(Records) * RefCols
FieldText(n) == Records[((n - 1) \div RefCols) + 1][((n - 1) % RefCols) + 1]
FieldStarts == RefParse(file).starts
NthStart(n) == CHOOSE p \in FieldStarts : Cardinality({q \in FieldStarts : q < p}) = n - 1
HeaderFields == IF header THEN RefCols ELSE 0
FirstDataStart ==
    IF HeaderFields < NumFields THEN NthStart(HeaderFields + 1) ELSE Len(file) + 1

\* C14: for a well-formed file whose records all have as many fields, the
\* column count is the number of fields of a record, the header loader leaves
\* the stream at the first byte of the first data row, the k-th cell the data
\* loader stores is the k-th field of the data rows (so cell (i, j) is the
\* j-th field of the i-th data row), and when the data loader has made its
\* rows * cols calls of csv_tokenize the stream is at its end.
C14_ScannersAgree ==
    (HasRecords /\ Rectangular(file)) =>
        /\ DimsKnown => cols = RefCols
        /\ (header /\ pc = "data_start") => data_pos = FirstDataStart
        /\ (pc = "data_loop" \/ ret = "doc") =>
               /\ HeaderFields + Len(data) <= NumFields
               /\ \A k \in 1..Len(data) : data[k] = FieldText(HeaderFields + k)
        /\ ((pc = "data_loop" /\ i = csvRows) \/ ret = "doc") =>
               /\ Len(data) = ExpectedRows * RefCols
               /\ pos = Len(file) + 1

\* the same, for the files without a quoted field
C14_UnquotedAgree == Unquoted => C14_ScannersAgree

\* csv_read is running; a step of csv_read
ReadRunning == pc \notin {"returned", "crashed", "freed"}
ReadStep ==
    \/ ReadOpen
    \/ ReadDims
    \/ ReadAlloc
    \/ HeaderStart
    \/ HeaderField
    \/ HeaderDone
    \/ DataStart
    \/ DataField
    \/ DataDone

\* C15: csv_read terminates on every finite file: while it runs it is never
\* in the quote loop of a sweep at end-of-stream (pc = "spin", where getc
\* returns EOF for ever and the loop has no exit), and it always has a step
\* that leads on to its return.
C15_ReadTerminates ==
    ReadRunning => (pc # "spin" /\ ENABLED ReadStep)

=============================================================================
